---- MODULE Spec2Model ----
(***************************************************************************)
(* Model of the in-memory inventory service of src/src/server.rs:          *)
(* StoreInventory (a HashMap<String, Item> behind one tokio Mutex), its     *)
(* eight gRPC handlers, and the background task spawned by watch().        *)
(*                                                                         *)
(* Request handlers run as concurrent tasks.  A handler is cut at its only *)
(* suspension point (inventory.lock().await); the two quantity handlers    *)
(* are cut once more between the evaluation of the new quantity and the    *)
(* store of it, so that a lost update is expressible.                      *)
(***************************************************************************)
EXTENDS Integers, Sequences, FiniteSets, TLC

(***************************************************************************)
(* Bounds of the model.                                                    *)
(***************************************************************************)
\* total number of requests the clients issue
MaxCalls == 4
\* number of watch tasks that may be spawned
MaxWatch == 1
\* length of a watch stream
MaxEvents == 2
\* width in bits of a quantity
QuantityBits == 3

(***************************************************************************)
(* Values.  Option<T> is a sequence of length at most one.                 *)
(***************************************************************************)
None == << >>
Some(x) == << x >>
IsSome(o) == o # None
Unwrap(o) == o[1]

\* ItemStock.quantity and QuantityChangeRequest.quantity are unsigned integers
\* of a fixed width; the width is scaled down to QuantityBits bits
Modulus == 2 ^ QuantityBits
QuantityMax == Modulus - 1

\* floats: a finite value (scaled to an integer) or NaN
F(v) == [nan |-> FALSE, val |-> v]
NaN == [nan |-> TRUE, val |-> 0]
\* IEEE comparisons: every comparison with NaN is false
FloatLe(a, b) == ~a.nan /\ ~b.nan /\ a.val <= b.val
FloatEq(a, b) == ~a.nan /\ ~b.nan /\ a.val = b.val

Clients == {"c1", "c2"}
WatcherPool == << "w1", "w2", "w3" >>
Watchers == {WatcherPool[i] : i \in 1 .. MaxWatch}
NoTask == "none"

Stock(q, p) == Some([quantity |-> q, price |-> p])
Item(id, stock) == [identifier |-> id, stock |-> stock]
Id(sku) == Some([sku |-> sku])

\* the requests the clients send: add, remove and get name any of SKUs, the
\* quantity, price and watch requests name one of TargetSKUs
SKUs == {"", "A1", "B2"}
TargetSKUs == {"", "A1"}
Amounts == {0, 1, QuantityMax}
NewPrices == {F(0), F(5), F(6), NaN}
Items ==
    {Item(None, Stock(2, F(5))), Item(Id(""), Stock(2, F(5))), Item(Id("A1"), None)}
    \cup {Item(Id("A1"), Stock(2, p)) : p \in {F(0), F(5), NaN}}
    \cup {Item(Id("A1"), Stock(QuantityMax, F(5))), Item(Id("B2"), Stock(2, F(5)))}

\* #[derive(PartialEq)] of Item, ItemIdentifier and ItemStock
StockEq(a, b) == a.quantity = b.quantity /\ FloatEq(a.price, b.price)
OptStockEq(a, b) ==
    \/ a = None /\ b = None
    \/ IsSome(a) /\ IsSome(b) /\ StockEq(Unwrap(a), Unwrap(b))
ItemEq(a, b) == a.identifier = b.identifier /\ OptStockEq(a.stock, b.stock)

\* error strings
BAD_PRICE_ERR == "provided PRICE was invalid"
DUP_PRICE_ERR == "item is already at this price"
DUP_ITEM_ERR == "item already exists in inventory"
DUP_QUANT_ERR == "item is already at this quantity"
LOW_QUANT_ERR == "invalid decrease quantity cannot bigger than current quantity"
EMPTY_SKU_ERR == "provided SKU was empty"
NO_ID_ERR == "no ID or SKU provided for item"
NO_ITEM_ERR == "the item requested was not found"
NO_STOCK_ERR == "no stock provided for item"

\* tonic::Status and the responses
Err(code, msg) == [ok |-> FALSE, code |-> code, msg |-> msg]
InvalidArgument(msg) == Err("invalid_argument", msg)
NotFound(msg) == Err("not_found", msg)
AlreadyExists(msg) == Err("already_exists", msg)
Internal(msg) == Err("internal", msg)
\* the handler's task unwound (arithmetic overflow with overflow checks on)
Panicked == Err("panic", "attempt to add with overflow")
InventoryChangeResponse(status) == [ok |-> TRUE, status |-> status]
InventoryUpdateResponse(stock) ==
    [ok |-> TRUE, status |-> "success", price |-> stock.price, quantity |-> stock.quantity]
ItemResponse(item) == [ok |-> TRUE, item |-> item]
ItemsResponse(items) == [ok |-> TRUE, items |-> items]
StreamResponse(w) == [ok |-> TRUE, stream |-> w]

NoReq == [op |-> "none"]
NoRes == [ok |-> FALSE, code |-> "none", msg |-> ""]

VARIABLES
    inventory,      \* StoreInventory.inventory: the HashMap, a function SKU -> Item
    lock,           \* the Mutex: the task holding it, or NoTask
    pc,             \* per client: idle | wait | cs | store | ret
    req,            \* per client: the request being served
    new,            \* per client: the stock a quantity handler computed and is about to store
    res,            \* per client: the response being returned
    calls,          \* number of requests issued so far
    wpc,            \* per watch task: unborn | sleep | wait | poll | done
    wid,            \* per watch task: the watched SKU (id.sku)
    witem,          \* per watch task: the held snapshot (item)
    stream,         \* per watch task: the items sent on the channel so far
    rx,             \* per watch task: TRUE while the receiver has not been dropped
    first           \* per watch task: the record fetched at subscribe time

vars == << inventory, lock, pc, req, new, res, calls,
           wpc, wid, witem, stream, rx, first >>
clientVars == << pc, req, new, res, calls >>
watchVars == << wpc, wid, witem, stream, rx, first >>

NoItem == [identifier |-> None, stock |-> None]
NoStock == [quantity |-> 0, price |-> F(0)]

Init ==
    /\ inventory = << >>
    /\ lock = NoTask
    /\ pc = [c \in Clients |-> "idle"]
    /\ req = [c \in Clients |-> NoReq]
    /\ new = [c \in Clients |-> NoStock]
    /\ res = [c \in Clients |-> NoRes]
    /\ calls = 0
    /\ wpc = [w \in Watchers |-> "unborn"]
    /\ wid = [w \in Watchers |-> ""]
    /\ witem = [w \in Watchers |-> NoItem]
    /\ stream = [w \in Watchers |-> << >>]
    /\ rx = [w \in Watchers |-> TRUE]
    /\ first = [w \in Watchers |-> NoItem]

(***************************************************************************)
(* HashMap operations.                                                     *)
(***************************************************************************)
Contains(map, k) == k \in DOMAIN map
Insert(map, k, v) == [x \in DOMAIN map \cup {k} |-> IF x = k THEN v ELSE map[x]]
RemoveKey(map, k) == [x \in DOMAIN map \ {k} |-> map[x]]
Values(map) == {map[k] : k \in DOMAIN map}

(***************************************************************************)
(* The Mutex.                                                              *)
(***************************************************************************)
\* a lock that admits a task while another holds it
CanLockAlways(t) == TRUE
CanLock(t) == lock = NoTask

\* a handler returns: its guard (if any) is dropped, the response goes out
Return(c, r) ==
    /\ lock' = IF lock = c THEN NoTask ELSE lock
    /\ pc' = [pc EXCEPT ![c] = "ret"]
    /\ res' = [res EXCEPT ![c] = r]
    /\ new' = [new EXCEPT ![c] = NoStock]

\* a request arrives at an idle client task
Arrive(c, rq) ==
    /\ pc[c] = "idle"
    /\ calls < MaxCalls
    /\ calls' = calls + 1
    /\ req' = [req EXCEPT ![c] = rq]

\* a handler reaches inventory.lock().await
Await(c) ==
    /\ pc' = [pc EXCEPT ![c] = "wait"]
    /\ UNCHANGED << lock, res, new >>

\* the handler of request kind op is inside its critical section at step at
At(c, op, at) == pc[c] = at /\ req[c].op = op

(***************************************************************************)
(* inventory.lock().await of a request handler.                            *)
(***************************************************************************)
lock_acquire(c) ==
    /\ pc[c] = "wait"
    /\ CanLock(c)
    /\ lock' = c
    /\ pc' = [pc EXCEPT ![c] = "cs"]
    /\ UNCHANGED << inventory, req, new, res, calls, watchVars >>

\* the response reaches the caller; the task is free for the next request
respond(c) ==
    /\ pc[c] = "ret"
    /\ pc' = [pc EXCEPT ![c] = "idle"]
    /\ req' = [req EXCEPT ![c] = NoReq]
    /\ res' = [res EXCEPT ![c] = NoRes]
    /\ UNCHANGED << inventory, lock, new, calls, watchVars >>

(***************************************************************************)
(* add                                                                     *)
(***************************************************************************)
\* add_begin without the test of line 48: an empty SKU is accepted
add_begin_any_sku(c) ==
    \E item \in Items :
        /\ Arrive(c, [op |-> "add", item |-> item])
        /\ IF item.identifier = None
             THEN Return(c, InvalidArgument(NO_ID_ERR))
           ELSE IF item.stock = None
             THEN Return(c, InvalidArgument(NO_STOCK_ERR))
           ELSE IF FloatLe(Unwrap(item.stock).price, F(0))
             THEN Return(c, InvalidArgument(BAD_PRICE_ERR))
           ELSE Await(c)
        /\ UNCHANGED << inventory, watchVars >>

add_begin(c) ==
    \E item \in Items :
        /\ Arrive(c, [op |-> "add", item |-> item])
        /\ IF item.identifier = None
             THEN Return(c, InvalidArgument(NO_ID_ERR))
           ELSE IF Unwrap(item.identifier).sku = ""
             THEN Return(c, InvalidArgument(EMPTY_SKU_ERR))
           ELSE IF item.stock = None
             THEN Return(c, InvalidArgument(NO_STOCK_ERR))
           ELSE IF FloatLe(Unwrap(item.stock).price, F(0))
             THEN Return(c, InvalidArgument(BAD_PRICE_ERR))
           ELSE Await(c)
        /\ UNCHANGED << inventory, watchVars >>

\* add without the lookup of line 62: insert replaces the record
add_overwrite(c) ==
    /\ At(c, "add", "cs")
    /\ inventory' = Insert(inventory, Unwrap(req[c].item.identifier).sku, req[c].item)
    /\ Return(c, InventoryChangeResponse("success"))
    /\ UNCHANGED << req, calls, watchVars >>

\* add that stores the identifier only: the stock of the request is dropped
add_id_only(c) ==
    /\ At(c, "add", "cs")
    /\ LET item == req[c].item
           sku == Unwrap(item.identifier).sku
       IN  IF Contains(inventory, sku)
             THEN /\ Return(c, AlreadyExists(DUP_ITEM_ERR))
                  /\ inventory' = inventory
             ELSE /\ inventory' = Insert(inventory, sku, Item(item.identifier, None))
                  /\ Return(c, InventoryChangeResponse("success"))
    /\ UNCHANGED << req, calls, watchVars >>

add(c) ==
    /\ At(c, "add", "cs")
    /\ LET item == req[c].item
           sku == Unwrap(item.identifier).sku
       IN  IF Contains(inventory, sku)
             THEN /\ Return(c, AlreadyExists(DUP_ITEM_ERR))
                  /\ inventory' = inventory
             ELSE /\ inventory' = Insert(inventory, sku, item)
                  /\ Return(c, InventoryChangeResponse("success"))
    /\ UNCHANGED << req, calls, watchVars >>

(***************************************************************************)
(* remove                                                                  *)
(***************************************************************************)
remove_begin(c) ==
    \E sku \in SKUs :
        /\ Arrive(c, [op |-> "remove", sku |-> sku])
        /\ IF sku = ""
             THEN Return(c, InvalidArgument(EMPTY_SKU_ERR))
             ELSE Await(c)
        /\ UNCHANGED << inventory, watchVars >>

\* remove that reports not-found when the SKU is not in the map
remove_strict(c) ==
    /\ At(c, "remove", "cs")
    /\ LET sku == req[c].sku
       IN  /\ inventory' = RemoveKey(inventory, sku)
           /\ IF Contains(inventory, sku)
                THEN Return(c, InventoryChangeResponse("success: item was removed"))
                ELSE Return(c, NotFound(NO_ITEM_ERR))
    /\ UNCHANGED << req, calls, watchVars >>

remove(c) ==
    /\ At(c, "remove", "cs")
    /\ LET sku == req[c].sku
       IN  /\ inventory' = RemoveKey(inventory, sku)
           /\ Return(c, InventoryChangeResponse(
                  IF Contains(inventory, sku) THEN "success: item was removed"
                                              ELSE "sucsees: item did not exist"))
    /\ UNCHANGED << req, calls, watchVars >>

(***************************************************************************)
(* get, get_all                                                            *)
(***************************************************************************)
get_begin(c) ==
    \E sku \in SKUs :
        /\ Arrive(c, [op |-> "get", sku |-> sku])
        /\ IF sku = ""
             THEN Return(c, InvalidArgument(EMPTY_SKU_ERR))
             ELSE Await(c)
        /\ UNCHANGED << inventory, watchVars >>

get(c) ==
    /\ At(c, "get", "cs")
    /\ LET sku == req[c].sku
       IN  IF Contains(inventory, sku)
             THEN Return(c, ItemResponse(inventory[sku]))
             ELSE Return(c, NotFound(NO_ITEM_ERR))
    /\ UNCHANGED << inventory, req, calls, watchVars >>

get_all_begin(c) ==
    /\ Arrive(c, [op |-> "get_all"])
    /\ Await(c)
    /\ UNCHANGED << inventory, watchVars >>

get_all(c) ==
    /\ At(c, "get_all", "cs")
    /\ Return(c, ItemsResponse(Values(inventory)))
    /\ UNCHANGED << inventory, req, calls, watchVars >>

(***************************************************************************)
(* decrease_quantity, increase_quantity                                    *)
(***************************************************************************)
decrease_quantity_begin(c) ==
    \E sku \in TargetSKUs, quantity \in Amounts :
        /\ Arrive(c, [op |-> "decrease_quantity", sku |-> sku, quantity |-> quantity])
        /\ Await(c)
        /\ UNCHANGED << inventory, watchVars >>

\* decrease_quantity without the comparison of line 150: the subtraction wraps
decrease_quantity_unchecked(c) ==
    /\ At(c, "decrease_quantity", "cs")
    /\ LET item == req[c]
       IN  IF ~Contains(inventory, item.sku)
             THEN Return(c, NotFound(NO_ITEM_ERR))
           ELSE IF inventory[item.sku].stock = None
             THEN Return(c, Internal(NO_STOCK_ERR))
           ELSE IF item.sku = ""
             THEN Return(c, InvalidArgument(EMPTY_SKU_ERR))
           ELSE IF item.quantity = 0
             THEN Return(c, InvalidArgument(DUP_QUANT_ERR))
           ELSE LET stock == Unwrap(inventory[item.sku].stock)
                IN  /\ new' = [new EXCEPT ![c] =
                           [stock EXCEPT !.quantity =
                               (stock.quantity - item.quantity) % Modulus]]
                    /\ pc' = [pc EXCEPT ![c] = "store"]
                    /\ UNCHANGED << lock, res >>
    /\ UNCHANGED << inventory, req, calls, watchVars >>

\* decrease_quantity that empties the stock before it reports insufficient stock
decrease_quantity_clamp(c) ==
    /\ At(c, "decrease_quantity", "cs")
    /\ LET item == req[c]
       IN  IF ~Contains(inventory, item.sku)
             THEN Return(c, NotFound(NO_ITEM_ERR)) /\ inventory' = inventory
           ELSE IF inventory[item.sku].stock = None
             THEN Return(c, Internal(NO_STOCK_ERR)) /\ inventory' = inventory
           ELSE IF item.sku = ""
             THEN Return(c, InvalidArgument(EMPTY_SKU_ERR)) /\ inventory' = inventory
           ELSE IF item.quantity = 0
             THEN Return(c, InvalidArgument(DUP_QUANT_ERR)) /\ inventory' = inventory
           ELSE LET stock == Unwrap(inventory[item.sku].stock)
                IN  IF item.quantity > stock.quantity
                      THEN /\ inventory' = [inventory EXCEPT ![item.sku].stock =
                                  Some([stock EXCEPT !.quantity = 0])]
                           /\ Return(c, InvalidArgument(LOW_QUANT_ERR))
                      ELSE /\ new' = [new EXCEPT ![c] =
                                  [stock EXCEPT !.quantity = stock.quantity - item.quantity]]
                           /\ pc' = [pc EXCEPT ![c] = "store"]
                           /\ UNCHANGED << lock, res, inventory >>
    /\ UNCHANGED << req, calls, watchVars >>

\* decrease_quantity that looks at the amount before it looks up the record
decrease_quantity_amount_first(c) ==
    /\ At(c, "decrease_quantity", "cs")
    /\ LET item == req[c]
       IN  IF item.quantity = 0
             THEN Return(c, InvalidArgument(DUP_QUANT_ERR))
           ELSE IF ~Contains(inventory, item.sku)
             THEN Return(c, NotFound(NO_ITEM_ERR))
           ELSE IF inventory[item.sku].stock = None
             THEN Return(c, Internal(NO_STOCK_ERR))
           ELSE IF item.sku = ""
             THEN Return(c, InvalidArgument(EMPTY_SKU_ERR))
           ELSE LET stock == Unwrap(inventory[item.sku].stock)
                IN  IF item.quantity > stock.quantity
                      THEN Return(c, InvalidArgument(LOW_QUANT_ERR))
                      ELSE /\ new' = [new EXCEPT ![c] =
                                  [stock EXCEPT !.quantity = stock.quantity - item.quantity]]
                           /\ pc' = [pc EXCEPT ![c] = "store"]
                           /\ UNCHANGED << lock, res >>
    /\ UNCHANGED << inventory, req, calls, watchVars >>

\* the match of lines 131-155 up to the value to be assigned
decrease_quantity(c) ==
    /\ At(c, "decrease_quantity", "cs")
    /\ LET item == req[c]
       IN  IF ~Contains(inventory, item.sku)
             THEN Return(c, NotFound(NO_ITEM_ERR))
           ELSE IF inventory[item.sku].stock = None
             THEN Return(c, Internal(NO_STOCK_ERR))
           ELSE IF item.sku = ""
             THEN Return(c, InvalidArgument(EMPTY_SKU_ERR))
           ELSE IF item.quantity = 0
             THEN Return(c, InvalidArgument(DUP_QUANT_ERR))
           ELSE LET stock == Unwrap(inventory[item.sku].stock)
                IN  IF item.quantity > stock.quantity
                      THEN Return(c, InvalidArgument(LOW_QUANT_ERR))
                      ELSE /\ new' = [new EXCEPT ![c] =
                                  [stock EXCEPT !.quantity = stock.quantity - item.quantity]]
                           /\ pc' = [pc EXCEPT ![c] = "store"]
                           /\ UNCHANGED << lock, res >>
    /\ UNCHANGED << inventory, req, calls, watchVars >>

increase_quantity_begin(c) ==
    \E sku \in TargetSKUs, quantity \in Amounts :
        /\ Arrive(c, [op |-> "increase_quantity", sku |-> sku, quantity |-> quantity])
        /\ Await(c)
        /\ UNCHANGED << inventory, watchVars >>

\* increase_quantity that assigns the amount instead of adding it
increase_quantity_assign(c) ==
    /\ At(c, "increase_quantity", "cs")
    /\ LET item == req[c]
       IN  IF ~Contains(inventory, item.sku)
             THEN Return(c, NotFound(NO_ITEM_ERR))
           ELSE IF inventory[item.sku].stock = None
             THEN Return(c, Internal(NO_STOCK_ERR))
           ELSE IF item.sku = ""
             THEN Return(c, InvalidArgument(EMPTY_SKU_ERR))
           ELSE IF item.quantity = 0
             THEN Return(c, InvalidArgument(DUP_QUANT_ERR))
           ELSE LET stock == Unwrap(inventory[item.sku].stock)
                IN  /\ new' = [new EXCEPT ![c] = [stock EXCEPT !.quantity = item.quantity]]
                    /\ pc' = [pc EXCEPT ![c] = "store"]
                    /\ UNCHANGED << lock, res >>
    /\ UNCHANGED << inventory, req, calls, watchVars >>

\* lines 170-189 up to the value to be assigned; an addition that overflows
\* panics (overflow checks on) or wraps (overflow checks off)
increase_quantity(c) ==
    /\ At(c, "increase_quantity", "cs")
    /\ LET item == req[c]
       IN  IF ~Contains(inventory, item.sku)
             THEN Return(c, NotFound(NO_ITEM_ERR))
           ELSE IF inventory[item.sku].stock = None
             THEN Return(c, Internal(NO_STOCK_ERR))
           ELSE IF item.sku = ""
             THEN Return(c, InvalidArgument(EMPTY_SKU_ERR))
           ELSE IF item.quantity = 0
             THEN Return(c, InvalidArgument(DUP_QUANT_ERR))
           ELSE LET stock == Unwrap(inventory[item.sku].stock)
                IN  \/ /\ stock.quantity + item.quantity > QuantityMax
                       /\ Return(c, Panicked)
                    \/ /\ new' = [new EXCEPT ![c] =
                               [stock EXCEPT !.quantity =
                                   (stock.quantity + item.quantity) % Modulus]]
                       /\ pc' = [pc EXCEPT ![c] = "store"]
                       /\ UNCHANGED << lock, res >>
    /\ UNCHANGED << inventory, req, calls, watchVars >>

\* the write through the &mut ItemStock
StoreQuantity(map, sku, q) ==
    IF Contains(map, sku) /\ IsSome(map[sku].stock)
      THEN [map EXCEPT ![sku].stock = Some([Unwrap(@) EXCEPT !.quantity = q])]
      ELSE map

\* the assignment to stock.quantity and the response (lines 149, 157-161; 189-195)
quantity_store(c) ==
    /\ pc[c] = "store"
    /\ inventory' = StoreQuantity(inventory, req[c].sku, new[c].quantity)
    /\ Return(c, InventoryUpdateResponse(new[c]))
    /\ UNCHANGED << req, calls, watchVars >>

(***************************************************************************)
(* update_price                                                            *)
(***************************************************************************)
update_price_begin(c) ==
    \E sku \in TargetSKUs, price \in NewPrices :
        /\ Arrive(c, [op |-> "update_price", sku |-> sku, price |-> price])
        /\ IF sku = ""
             THEN Return(c, InvalidArgument(EMPTY_SKU_ERR))
           ELSE IF FloatLe(price, F(0))
             THEN Return(c, InvalidArgument(BAD_PRICE_ERR))
           ELSE Await(c)
        /\ UNCHANGED << inventory, watchVars >>

update_price(c) ==
    /\ At(c, "update_price", "cs")
    /\ LET item == req[c]
       IN  IF ~Contains(inventory, item.sku)
             THEN /\ Return(c, NotFound(NO_ITEM_ERR))
                  /\ inventory' = inventory
           ELSE IF inventory[item.sku].stock = None
             THEN /\ Return(c, Internal(NO_STOCK_ERR))
                  /\ inventory' = inventory
           ELSE LET stock == Unwrap(inventory[item.sku].stock)
                IN  IF FloatEq(stock.price, item.price)
                      THEN /\ Return(c, InvalidArgument(DUP_PRICE_ERR))
                           /\ inventory' = inventory
                      ELSE /\ inventory' = [inventory EXCEPT ![item.sku].stock =
                                  Some([stock EXCEPT !.price = item.price])]
                           /\ Return(c, InventoryUpdateResponse(
                                  [stock EXCEPT !.price = item.price]))
    /\ UNCHANGED << req, calls, watchVars >>

(***************************************************************************)
(* watch: the handler, then the spawned task                               *)
(***************************************************************************)
Born == {w \in Watchers : wpc[w] # "unborn"}
Subscribing == {c \in Clients : req[c].op = "watch" /\ pc[c] \in {"wait", "cs"}}
\* the task the next tokio::spawn creates
NextTask ==
    WatcherPool[CHOOSE i \in 1 .. MaxWatch :
        /\ wpc[WatcherPool[i]] = "unborn"
        /\ \A j \in 1 .. (i - 1) : wpc[WatcherPool[j]] # "unborn"]

\* watch() calls self.get(): its SKU check and its lock().await
watch_begin(c) ==
    \E sku \in TargetSKUs :
        /\ Cardinality(Born) + Cardinality(Subscribing) < MaxWatch
        /\ Arrive(c, [op |-> "watch", sku |-> sku])
        /\ IF sku = ""
             THEN Return(c, InvalidArgument(EMPTY_SKU_ERR))
             ELSE Await(c)
        /\ UNCHANGED << inventory, watchVars >>

\* watch that spawns its task before it looks at the result of get()
watch_spawn_first(c) ==
    /\ At(c, "watch", "cs")
    /\ LET sku == req[c].sku
           w == NextTask
       IN  /\ wpc' = [wpc EXCEPT ![w] = "sleep"]
           /\ wid' = [wid EXCEPT ![w] = sku]
           /\ witem' = [witem EXCEPT ![w] =
                  IF Contains(inventory, sku) THEN inventory[sku] ELSE NoItem]
           /\ first' = [first EXCEPT ![w] =
                  IF Contains(inventory, sku) THEN inventory[sku] ELSE NoItem]
           /\ UNCHANGED << stream, rx >>
           /\ IF Contains(inventory, sku)
                THEN Return(c, StreamResponse(w))
                ELSE Return(c, NotFound(NO_ITEM_ERR))
    /\ UNCHANGED << inventory, req, calls >>

\* the rest of get() under the lock, then the channel, the spawn and the response
watch(c) ==
    /\ At(c, "watch", "cs")
    /\ LET sku == req[c].sku
       IN  IF ~Contains(inventory, sku)
             THEN /\ Return(c, NotFound(NO_ITEM_ERR))
                  /\ UNCHANGED watchVars
             ELSE LET w == NextTask
                  IN  /\ wpc' = [wpc EXCEPT ![w] = "sleep"]
                      /\ wid' = [wid EXCEPT ![w] = sku]
                      /\ witem' = [witem EXCEPT ![w] = inventory[sku]]
                      /\ first' = [first EXCEPT ![w] = inventory[sku]]
                      /\ UNCHANGED << stream, rx >>
                      /\ Return(c, StreamResponse(w))
    /\ UNCHANGED << inventory, req, calls >>

\* tokio::time::sleep(1 s) elapses
watch_sleep(w) ==
    /\ wpc[w] = "sleep"
    /\ Len(stream[w]) < MaxEvents \/ ~rx[w]
    /\ wpc' = [wpc EXCEPT ![w] = "wait"]
    /\ UNCHANGED << inventory, lock, clientVars, wid, witem, stream, rx, first >>

\* inventory.lock().await of the task
watch_lock(w) ==
    /\ wpc[w] = "wait"
    /\ CanLock(w)
    /\ lock' = w
    /\ wpc' = [wpc EXCEPT ![w] = "poll"]
    /\ UNCHANGED << inventory, clientVars, wid, witem, stream, rx, first >>

\* stream items
Changed(item) == [ok |-> TRUE, item |-> item]
Gone == NotFound(NO_ITEM_ERR)

\* watch_poll without the return of line 259: the loop goes on after not-found
watch_poll_no_return(w) ==
    /\ wpc[w] = "poll"
    /\ lock' = IF lock = w THEN NoTask ELSE lock
    /\ IF ~Contains(inventory, wid[w])
         THEN /\ stream' = [stream EXCEPT ![w] = IF rx[w] THEN Append(@, Gone) ELSE @]
              /\ wpc' = [wpc EXCEPT ![w] = "sleep"]
              /\ witem' = witem
         ELSE LET item_refresh == inventory[wid[w]]
              IN  IF ~ItemEq(item_refresh, witem[w])
                    THEN IF rx[w]
                           THEN /\ stream' = [stream EXCEPT ![w] = Append(@, Changed(item_refresh))]
                                /\ witem' = [witem EXCEPT ![w] = item_refresh]
                                /\ wpc' = [wpc EXCEPT ![w] = "sleep"]
                           ELSE /\ wpc' = [wpc EXCEPT ![w] = "done"]
                                /\ UNCHANGED << stream, witem >>
                    ELSE /\ witem' = [witem EXCEPT ![w] = item_refresh]
                         /\ wpc' = [wpc EXCEPT ![w] = "sleep"]
                         /\ stream' = stream
    /\ UNCHANGED << inventory, clientVars, wid, rx, first >>

\* watch_poll whose guard lives on into the sleep: the lock is not released
watch_poll_keep_lock(w) ==
    /\ wpc[w] = "poll"
    /\ lock' = lock
    /\ IF ~Contains(inventory, wid[w])
         THEN /\ stream' = [stream EXCEPT ![w] = IF rx[w] THEN Append(@, Gone) ELSE @]
              /\ wpc' = [wpc EXCEPT ![w] = "done"]
              /\ witem' = witem
         ELSE LET item_refresh == inventory[wid[w]]
              IN  IF ~ItemEq(item_refresh, witem[w])
                    THEN IF rx[w]
                           THEN /\ stream' = [stream EXCEPT ![w] = Append(@, Changed(item_refresh))]
                                /\ witem' = [witem EXCEPT ![w] = item_refresh]
                                /\ wpc' = [wpc EXCEPT ![w] = "sleep"]
                           ELSE /\ wpc' = [wpc EXCEPT ![w] = "done"]
                                /\ UNCHANGED << stream, witem >>
                    ELSE /\ witem' = [witem EXCEPT ![w] = item_refresh]
                         /\ wpc' = [wpc EXCEPT ![w] = "sleep"]
                         /\ stream' = stream
    /\ UNCHANGED << inventory, clientVars, wid, rx, first >>

\* one iteration of the loop after the lock is taken (lines 253-270)
watch_poll(w) ==
    /\ wpc[w] = "poll"
    /\ lock' = IF lock = w THEN NoTask ELSE lock
    /\ IF ~Contains(inventory, wid[w])
         THEN /\ stream' = [stream EXCEPT ![w] = IF rx[w] THEN Append(@, Gone) ELSE @]
              /\ wpc' = [wpc EXCEPT ![w] = "done"]
              /\ witem' = witem
         ELSE LET item_refresh == inventory[wid[w]]
              IN  IF ~ItemEq(item_refresh, witem[w])
                    THEN IF rx[w]
                           THEN /\ stream' = [stream EXCEPT ![w] = Append(@, Changed(item_refresh))]
                                /\ witem' = [witem EXCEPT ![w] = item_refresh]
                                /\ wpc' = [wpc EXCEPT ![w] = "sleep"]
                           ELSE /\ wpc' = [wpc EXCEPT ![w] = "done"]
                                /\ UNCHANGED << stream, witem >>
                    ELSE /\ witem' = [witem EXCEPT ![w] = item_refresh]
                         /\ wpc' = [wpc EXCEPT ![w] = "sleep"]
                         /\ stream' = stream
    /\ UNCHANGED << inventory, clientVars, wid, rx, first >>

\* the subscriber drops the stream (the receiving half of the channel)
drop_receiver(w) ==
    /\ wpc[w] \notin {"unborn", "done"}
    /\ rx[w]
    /\ rx' = [rx EXCEPT ![w] = FALSE]
    /\ UNCHANGED << inventory, lock, clientVars, wpc, wid, witem, stream, first >>

Next ==
    \/ \E c \in Clients :
        \/ add_begin(c) \/ add(c)
        \/ remove_begin(c) \/ remove(c)
        \/ get_begin(c) \/ get(c)
        \/ get_all_begin(c) \/ get_all(c)
        \/ decrease_quantity_begin(c) \/ decrease_quantity(c)
        \/ increase_quantity_begin(c) \/ increase_quantity(c)
        \/ quantity_store(c)
        \/ update_price_begin(c) \/ update_price(c)
        \/ watch_begin(c) \/ watch(c)
        \/ lock_acquire(c)
        \/ respond(c)
    \/ \E w \in Watchers :
        \/ watch_sleep(w) \/ watch_lock(w) \/ watch_poll(w)
        \/ drop_receiver(w)

Spec == Init /\ [][Next]_vars

\* Scheduling: the runtime runs every task that can run, the timer of a sleeping
\* watch task fires, and the Mutex is fair (a waiting task gets the lock).
\* Requests and disconnects come from outside and need not happen.
ClientStep(c) ==
    \/ add(c) \/ remove(c) \/ get(c) \/ get_all(c)
    \/ decrease_quantity(c) \/ increase_quantity(c) \/ quantity_store(c)
    \/ update_price(c) \/ watch(c) \/ respond(c)
Fairness ==
    /\ \A c \in Clients : WF_vars(ClientStep(c)) /\ SF_vars(lock_acquire(c))
    /\ \A w \in Watchers :
          WF_vars(watch_sleep(w)) /\ SF_vars(watch_lock(w)) /\ WF_vars(watch_poll(w))
FairSpec == Spec /\ Fairness

\* The same service and scheduling with fewer kinds of request: one SKU
\* besides the empty one, an Item with and without stock, the amounts 0 and 1,
\* one new price.  What a handler or a watch task waits for does not depend on
\* the values it carries, only on the path it takes.
LiveRequest(rq) ==
    /\ rq.op = "add" =>
          rq.item \in {Item(Id("A1"), Stock(QuantityMax, F(5))), Item(Id("A1"), None)}
    /\ rq.op \in {"remove", "get", "decrease_quantity", "increase_quantity",
                  "update_price", "watch"} => rq.sku \in TargetSKUs
    /\ rq.op \in {"decrease_quantity", "increase_quantity"} => rq.quantity \in {0, 1}
    /\ rq.op = "update_price" => rq.price = F(6)
LiveNext ==
    \/ \E c \in Clients :
        \/ add_begin(c) /\ LiveRequest(req'[c])
        \/ remove_begin(c) /\ LiveRequest(req'[c])
        \/ get_begin(c) /\ LiveRequest(req'[c])
        \/ get_all_begin(c)
        \/ decrease_quantity_begin(c) /\ LiveRequest(req'[c])
        \/ increase_quantity_begin(c) /\ LiveRequest(req'[c])
        \/ update_price_begin(c) /\ LiveRequest(req'[c])
        \/ watch_begin(c) /\ LiveRequest(req'[c])
        \/ add(c) \/ remove(c) \/ get(c) \/ get_all(c)
        \/ decrease_quantity(c) \/ increase_quantity(c) \/ quantity_store(c)
        \/ update_price(c) \/ watch(c)
        \/ lock_acquire(c)
        \/ respond(c)
    \/ \E w \in Watchers :
        \/ watch_sleep(w) \/ watch_lock(w) \/ watch_poll(w)
        \/ drop_receiver(w)
LiveSpec == Init /\ [][LiveNext]_vars /\ Fairness

(***************************************************************************)
(* Properties.                                                             *)
(***************************************************************************)
\* the step in which the handler of client c returns (req'[c] is its request)
Returns(c) == pc[c] # "ret" /\ pc'[c] = "ret"
\* the step in which a quantity handler assigns stock.quantity
Stores(c, op) == At(c, op, "store") /\ pc'[c] = "ret"
Mutations ==
    {"add", "remove", "decrease_quantity", "increase_quantity", "update_price"}
QuantityOf(map, sku) == Unwrap(map[sku].stock).quantity

\* C1: no negative stock.  In every reachable state every record of the store
\* has a quantity >= 0 (within the range of the unsigned type), and a
\* DecreaseQuantity(sku, amount) is applied successfully only when amount is at
\* most the record's quantity at that moment, leaving quantity - amount.
NoNegativeStock ==
    /\ [](\A sku \in DOMAIN inventory :
            IsSome(inventory[sku].stock) =>
                QuantityOf(inventory, sku) \in 0 .. QuantityMax)
    /\ [][\A c \in Clients :
            Stores(c, "decrease_quantity") /\ res'[c].ok =>
                /\ Contains(inventory, req[c].sku)
                /\ req[c].quantity <= QuantityOf(inventory, req[c].sku)
                /\ QuantityOf(inventory', req[c].sku) =
                       QuantityOf(inventory, req[c].sku) - req[c].quantity]_vars

\* a decrease by the whole quantity succeeded and left 0
NoNegativeStockWitness ==
    \E c \in Clients :
        /\ At(c, "decrease_quantity", "ret")
        /\ res[c].ok /\ res[c].quantity = 0
        /\ req[c].quantity = QuantityMax

\* C3: mutual exclusion on the inventory map.  At most one task (handler or
\* watch poll) is at a step that reads or writes the map, and every task at
\* such a step holds the lock.
InCritical ==
    {c \in Clients : pc[c] \in {"cs", "store"}} \cup {w \in Watchers : wpc[w] = "poll"}
MutualExclusion ==
    /\ Cardinality(InCritical) <= 1
    /\ \A t \in InCritical : lock = t
    /\ lock # NoTask => lock \in InCritical

\* a handler is between its read and its write of the quantity while another
\* handler and a watch task wait for the lock
MutualExclusionWitness ==
    \E c, d \in Clients, w \in Watchers :
        /\ pc[c] = "store" /\ lock = c
        /\ pc[d] = "wait"
        /\ wpc[w] = "wait"

\* C4: a failed mutation leaves the store unchanged.  Whenever Add, Remove,
\* DecreaseQuantity, IncreaseQuantity or UpdatePrice returns an error, the
\* whole map is what it was before that step.
FailedMutationKeepsStore ==
    [][\A c \in Clients :
          Returns(c) /\ req'[c].op \in Mutations /\ ~res'[c].ok =>
              inventory' = inventory]_vars

\* a decrease by more than the stock failed and the record still has its stock
FailedMutationWitness ==
    \E c \in Clients :
        /\ At(c, "decrease_quantity", "ret")
        /\ res[c] = InvalidArgument(LOW_QUANT_ERR)
        /\ Contains(inventory, req[c].sku)
        /\ QuantityOf(inventory, req[c].sku) = 2

\* C2: quantity read-modify-write is atomic.  Every DecreaseQuantity /
\* IncreaseQuantity that returns success leaves the quantity of its record at
\* the quantity left by the step before it minus / plus its amount and returns
\* that quantity, and no other step changes the quantity of a record that
\* stays in the store; so the final quantity is the initial one minus the sum
\* of the successful decreases plus the sum of the successful increases.
AtomicQuantityUpdate ==
    [][/\ \A c \in Clients :
            Stores(c, "decrease_quantity") =>
                /\ Contains(inventory, req[c].sku)
                /\ QuantityOf(inventory', req[c].sku) =
                       QuantityOf(inventory, req[c].sku) - req[c].quantity
                /\ res'[c].ok /\ res'[c].quantity = QuantityOf(inventory', req[c].sku)
       /\ \A c \in Clients :
            Stores(c, "increase_quantity") =>
                /\ Contains(inventory, req[c].sku)
                /\ QuantityOf(inventory', req[c].sku) =
                       QuantityOf(inventory, req[c].sku) + req[c].quantity
                /\ res'[c].ok /\ res'[c].quantity = QuantityOf(inventory', req[c].sku)
       /\ (\A c \in Clients : pc[c] # "store" \/ pc'[c] # "ret") =>
            \A sku \in DOMAIN inventory \cap DOMAIN inventory' :
                QuantityOf(inventory', sku) = QuantityOf(inventory, sku)]_vars

\* C5: watch terminal event.  A poll that finds the watched SKU absent ends the
\* task and puts one not-found item on the stream (none when the subscriber has
\* already dropped the receiver: the send fails); a not-found item is the last
\* item of its stream, its task is done, and the stream of a task that is done
\* never changes again, whatever is added to the store.
TerminalNotFound ==
    /\ [](\A w \in Watchers : \A i \in 1 .. Len(stream[w]) :
            stream[w][i] = Gone => i = Len(stream[w]) /\ wpc[w] = "done")
    /\ [][\A w \in Watchers :
            /\ wpc[w] = "poll" /\ wpc'[w] # "poll" /\ ~Contains(inventory, wid[w]) =>
                  /\ wpc'[w] = "done"
                  /\ stream'[w] = IF rx[w] THEN Append(stream[w], Gone) ELSE stream[w]
            /\ wpc[w] = "done" => wpc'[w] = "done" /\ stream'[w] = stream[w]]_vars

\* the stream ended with not-found and the SKU is in the store again
TerminalNotFoundWitness ==
    \E w \in Watchers :
        /\ wpc[w] = "done"
        /\ stream[w] # << >> /\ stream[w][Len(stream[w])] = Gone
        /\ Contains(inventory, wid[w])

\* C6: watch ordering and no duplicates.  The first item emitted differs from
\* the record fetched at subscribe time, two consecutive change items differ
\* from each other, and the held snapshot is the last record observed (the
\* last change emitted, or the subscribe-time record when none was).
DistinctSnapshotsInOrder ==
    \A w \in Watchers :
        /\ \A i \in 1 .. Len(stream[w]) :
              stream[w][i].ok =>
                  stream[w][i].item # (IF i = 1 THEN first[w] ELSE stream[w][i - 1].item)
        /\ wpc[w] \in {"sleep", "wait", "poll"} =>
              witem[w] = IF stream[w] = << >> THEN first[w]
                         ELSE stream[w][Len(stream[w])].item

\* C8: watch emits on a poll iff the sample differs from the held snapshot.
\* At each poll that finds the record, with the receiver open, the task emits
\* one change event carrying the sample when the sample differs from the held
\* snapshot and nothing when it is equal, and then holds the sample.
PollEmitsIffChanged ==
    [][\A w \in Watchers :
          /\ wpc[w] = "poll" /\ wpc'[w] # "poll"
          /\ Contains(inventory, wid[w]) /\ rx[w]
          => LET sample == inventory[wid[w]]
             IN  /\ stream'[w] = IF sample # witem[w]
                                   THEN Append(stream[w], Changed(sample))
                                   ELSE stream[w]
                 /\ witem'[w] = sample]_vars

\* C9 as stated: a Watch of a SKU that is not in the store returns not-found
\* and spawns no task.
WatchAbsentNotFound ==
    [][\A c \in Clients :
          Returns(c) /\ req'[c].op = "watch" /\ ~Contains(inventory, req'[c].sku) =>
              /\ res'[c] = NotFound(NO_ITEM_ERR)
              /\ UNCHANGED watchVars]_vars

\* C9 as amended: a Watch of a SKU that is not in the store when the
\* subscribe-time get reads it fails and spawns no task (no stream, no later
\* poll); the error is not-found for a non-empty SKU and invalid-argument
\* (empty SKU) for the empty one.
WatchAbsentFails ==
    [][\A c \in Clients :
          Returns(c) /\ req'[c].op = "watch" /\ ~Contains(inventory, req'[c].sku) =>
              /\ res'[c] = IF req'[c].sku = "" THEN InvalidArgument(EMPTY_SKU_ERR)
                                               ELSE NotFound(NO_ITEM_ERR)
              /\ UNCHANGED watchVars]_vars

\* a Watch of an absent, non-empty SKU returned not-found and no task exists
WatchAbsentWitness ==
    \E c \in Clients :
        /\ At(c, "watch", "ret")
        /\ req[c].sku # ""
        /\ res[c] = NotFound(NO_ITEM_ERR)
        /\ Born = {}

\* the add of client c that returns in this step names a SKU that is in the store
AddsPresent(c) ==
    /\ Returns(c) /\ req'[c].op = "add"
    /\ IsSome(req'[c].item.identifier)
    /\ Contains(inventory, Unwrap(req'[c].item.identifier).sku)

\* C10 as stated: an Add of a SKU that is already present fails with
\* already-exists and leaves the store unchanged.
AddPresentAlreadyExists ==
    [][\A c \in Clients :
          AddsPresent(c) =>
              res'[c] = AlreadyExists(DUP_ITEM_ERR) /\ inventory' = inventory]_vars

\* C10 as amended: an Add of a SKU that is already present fails and leaves
\* the store unchanged; the error is already-exists when the item passes the
\* validation of add (stock present, price not <= 0) and invalid-argument when
\* it does not.  Each record is stored under its own SKU, and a record that
\* stays in the store changes only by a quantity or price operation on its
\* SKU, so it is the one of the earliest Add not followed by a Remove.
NoDuplicateKeys ==
    /\ [](\A sku \in DOMAIN inventory : inventory[sku].identifier = Id(sku))
    /\ [][/\ \A c \in Clients :
               AddsPresent(c) =>
                   /\ res'[c] = IF pc[c] = "cs" THEN AlreadyExists(DUP_ITEM_ERR)
                                ELSE InvalidArgument(res'[c].msg)
                   /\ pc[c] = "cs" <=>
                          /\ IsSome(req'[c].item.stock)
                          /\ ~FloatLe(Unwrap(req'[c].item.stock).price, F(0))
                   /\ inventory' = inventory
          /\ \A sku \in DOMAIN inventory \cap DOMAIN inventory' :
               inventory'[sku] # inventory[sku] =>
                   \E c \in Clients :
                       /\ Returns(c) /\ req[c].sku = sku
                       /\ req[c].op \in {"decrease_quantity", "increase_quantity",
                                         "update_price"}]_vars

\* a valid Add of a present SKU was refused and the store still holds the
\* earlier, different record
NoDuplicateKeysWitness ==
    \E c \in Clients :
        /\ At(c, "add", "ret")
        /\ res[c] = AlreadyExists(DUP_ITEM_ERR)
        /\ Contains(inventory, Unwrap(req[c].item.identifier).sku)
        /\ inventory[Unwrap(req[c].item.identifier).sku] # req[c].item

\* C7: watch cancellation on disconnect.  After the subscriber drops the
\* receiver the watch task emits nothing more and eventually terminates.
WatchEndsAfterDisconnect ==
    /\ [][\A w \in Watchers : ~rx[w] => stream'[w] = stream[w]]_vars
    /\ \A w \in Watchers : ~rx[w] ~> wpc[w] = "done"

\* a price that is > 0
Positive(p) == ~p.nan /\ p.val > 0
\* an Item with a non-empty SKU and a present stock with a price > 0
WellFormed(item) ==
    /\ IsSome(item.identifier) /\ Unwrap(item.identifier).sku # ""
    /\ IsSome(item.stock) /\ Positive(Unwrap(item.stock).price)

\* C11: Add/Get round trip.  An Add of an Item with a non-empty SKU and a
\* present stock with price > 0 is not refused by the validation; with its SKU
\* not in the store it returns success and stores the Item under its SKU as it
\* was sent.  A Get of a present SKU returns the stored Item (equal under the
\* Item's own comparison as well when its price is > 0).  A stored record
\* changes only in the step of a Remove, Decrease, Increase or UpdatePrice of
\* its SKU; so a Get before any such step returns the Item that was added.
AddGetRoundTrip ==
    [][/\ \A c \in Clients :
            Returns(c) /\ req'[c].op = "add" /\ WellFormed(req'[c].item) =>
                /\ pc[c] = "cs"
                /\ LET item == req'[c].item
                       sku == Unwrap(item.identifier).sku
                   IN  ~Contains(inventory, sku) =>
                           /\ res'[c] = InventoryChangeResponse("success")
                           /\ Contains(inventory', sku) /\ inventory'[sku] = item
       /\ \A c \in Clients :
            Returns(c) /\ req'[c].op = "get" /\ Contains(inventory, req'[c].sku) =>
                /\ res'[c].ok /\ res'[c].item = inventory[req'[c].sku]
                /\ WellFormed(res'[c].item) => ItemEq(res'[c].item, inventory[req'[c].sku])
                /\ inventory' = inventory
       /\ \A sku \in DOMAIN inventory \cap DOMAIN inventory' :
            inventory'[sku] # inventory[sku] =>
                \E c \in Clients :
                    /\ Returns(c) /\ req[c].sku = sku
                    /\ req[c].op \in Mutations \ {"add"}]_vars

\* an Add of a well-formed Item succeeded, and a Get of its SKU returned that Item
AddGetRoundTripWitness ==
    \E c, d \in Clients :
        /\ At(c, "add", "ret") /\ res[c] = InventoryChangeResponse("success")
        /\ WellFormed(req[c].item)
        /\ At(d, "get", "ret") /\ res[d].ok
        /\ req[d].sku = Unwrap(req[c].item.identifier).sku
        /\ res[d].item = req[c].item
        /\ ItemEq(res[d].item, req[c].item)

\* C12: Remove makes the SKU absent.  A Remove of a non-empty SKU reports
\* success whether or not the SKU was present, with a status that tells
\* 'removed' from 'did not exist'; the step leaves the SKU absent and every
\* other record as it was.  A Get of an absent SKU returns not-found, and
\* GetAll returns records of present SKUs only.
RemoveMakesAbsent ==
    [][/\ \A c \in Clients :
            Returns(c) /\ req'[c].op = "remove" /\ req'[c].sku # "" =>
                LET sku == req'[c].sku
                IN  /\ res'[c].ok
                    /\ res'[c].status = IF Contains(inventory, sku)
                                          THEN "success: item was removed"
                                          ELSE "sucsees: item did not exist"
                    /\ ~Contains(inventory', sku)
                    /\ DOMAIN inventory' = DOMAIN inventory \ {sku}
                    /\ \A k \in DOMAIN inventory' : inventory'[k] = inventory[k]
       /\ \A c \in Clients :
            /\ Returns(c) /\ req'[c].op = "get" /\ req'[c].sku # ""
            /\ ~Contains(inventory, req'[c].sku)
            => res'[c] = NotFound(NO_ITEM_ERR)
       /\ \A c \in Clients :
            Returns(c) /\ req'[c].op = "get_all" =>
                /\ res'[c].ok
                /\ \A item \in res'[c].items :
                      /\ IsSome(item.identifier)
                      /\ Contains(inventory, Unwrap(item.identifier).sku)]_vars

\* a Remove took a record away, the other record is still there, and a Get of
\* the removed SKU returned not-found
RemoveMakesAbsentWitness ==
    \E c, d \in Clients :
        /\ At(c, "remove", "ret")
        /\ res[c] = InventoryChangeResponse("success: item was removed")
        /\ ~Contains(inventory, req[c].sku)
        /\ inventory # << >>
        /\ At(d, "get", "ret") /\ req[d].sku = req[c].sku
        /\ res[d] = NotFound(NO_ITEM_ERR)

\* the record req[d] names is as the successful decrease of client c, which has
\* just returned, left it, and req[d] carries the amount of that decrease
AsDecreaseLeft(c, d) ==
    /\ At(c, "decrease_quantity", "ret") /\ res[c].ok
    /\ req[d].op = "increase_quantity"
    /\ req[d].sku = req[c].sku /\ req[d].quantity = req[c].quantity
    /\ Contains(inventory, req[c].sku)
    /\ Unwrap(inventory[req[c].sku].stock) =
           [quantity |-> res[c].quantity, price |-> res[c].price]

\* C13: Decrease/Increase round trip.  A successful DecreaseQuantity(sku, a)
\* of a record with quantity q has 0 < a <= q, leaves and returns q - a and
\* keeps the price.  An IncreaseQuantity(sku, a) that finds the record as the
\* decrease left it is not refused, leaves and returns (q - a) + a = q, and
\* keeps the price.
DecreaseIncreaseRoundTrip ==
    [][/\ \A c \in Clients :
            Stores(c, "decrease_quantity") =>
                LET sku == req[c].sku
                    q == QuantityOf(inventory, sku)
                    a == req[c].quantity
                IN  /\ 0 < a /\ a <= q
                    /\ res'[c].ok /\ res'[c].quantity = q - a
                    /\ QuantityOf(inventory', sku) = q - a
                    /\ res'[c].price = Unwrap(inventory[sku].stock).price
                    /\ Unwrap(inventory'[sku].stock).price = Unwrap(inventory[sku].stock).price
       /\ \A c, d \in Clients :
            /\ AsDecreaseLeft(c, d) /\ pc[d] = "cs" /\ pc'[d] # "cs" => pc'[d] = "store"
            /\ AsDecreaseLeft(c, d) /\ Stores(d, "increase_quantity") =>
                LET sku == req[c].sku
                    q == res[c].quantity + req[c].quantity
                IN  /\ QuantityOf(inventory', sku) = q
                    /\ Unwrap(inventory'[sku].stock).price = res[c].price
                    /\ res'[d].ok /\ res'[d].quantity = q
                    /\ res'[d].price = res[c].price]_vars

\* a decrease by a > 0 succeeded, then an increase by a succeeded and the
\* quantity is what it was before the decrease
DecreaseIncreaseRoundTripWitness ==
    \E c, d \in Clients :
        /\ At(c, "decrease_quantity", "ret") /\ res[c].ok
        /\ At(d, "increase_quantity", "ret") /\ res[d].ok
        /\ req[d].sku = req[c].sku /\ req[d].quantity = req[c].quantity
        /\ req[c].quantity > 0
        /\ res[d].quantity = res[c].quantity + req[c].quantity
        /\ Contains(inventory, req[c].sku)
        /\ QuantityOf(inventory, req[c].sku) = res[d].quantity

\* C14: UpdatePrice changes only the price.  An UpdatePrice(sku, p) that
\* returns success sets the price of the record to p and returns (p, the
\* record's quantity), leaving the quantity, the identifier and every other
\* record as they were; an UpdatePrice whose p is the current price of the
\* record fails with invalid-argument and leaves the store unchanged.
UpdatePriceOnlyPrice ==
    [][\A c \in Clients :
          Returns(c) /\ req'[c].op = "update_price" =>
              LET sku == req'[c].sku
                  p == req'[c].price
              IN  /\ res'[c].ok =>
                        /\ Contains(inventory, sku) /\ IsSome(inventory[sku].stock)
                        /\ inventory' = [inventory EXCEPT ![sku].stock =
                               Some([quantity |-> QuantityOf(inventory, sku), price |-> p])]
                        /\ res'[c].price = p
                        /\ res'[c].quantity = QuantityOf(inventory, sku)
                  /\ /\ Contains(inventory, sku) /\ IsSome(inventory[sku].stock)
                     /\ p = Unwrap(inventory[sku].stock).price
                     => /\ ~res'[c].ok /\ res'[c].code = "invalid_argument"
                        /\ inventory' = inventory]_vars

\* the errors of the checks of decrease_quantity / increase_quantity
CheckErrors == {"not_found", "internal", "invalid_argument"}

\* C15: error precedence of DecreaseQuantity / IncreaseQuantity.  The checks
\* run in the order: record exists (not-found), stock present (internal), SKU
\* non-empty (invalid-argument), amount non-zero (invalid-argument), and for a
\* decrease amount <= current quantity (invalid-argument).  The call returns
\* the error of the first check it violates, whatever later checks it violates
\* too, and none of these errors when it violates none.
ErrorPrecedence ==
    [][\A c \in Clients :
          /\ pc[c] = "cs" /\ pc'[c] # "cs"
          /\ req[c].op \in {"decrease_quantity", "increase_quantity"}
          => LET sku == req[c].sku
                 a == req[c].quantity
                 exists == Contains(inventory, sku)
                 stocked == exists /\ IsSome(inventory[sku].stock)
                 named == stocked /\ sku # ""
                 nonzero == named /\ a # 0
                 enough == nonzero /\ (req[c].op = "decrease_quantity" =>
                                           a <= QuantityOf(inventory, sku))
                 error == IF pc'[c] = "ret" THEN res'[c] ELSE NoRes
             IN  /\ ~exists => error = NotFound(NO_ITEM_ERR)
                 /\ exists /\ ~stocked => error = Internal(NO_STOCK_ERR)
                 /\ stocked /\ ~named => error = InvalidArgument(EMPTY_SKU_ERR)
                 /\ named /\ ~nonzero => error = InvalidArgument(DUP_QUANT_ERR)
                 /\ nonzero /\ ~enough => error = InvalidArgument(LOW_QUANT_ERR)
                 /\ enough => error.code \notin CheckErrors]_vars

\* a decrease with an empty SKU and a zero amount returned not-found, and an
\* increase by zero of a present record returned invalid-argument
ErrorPrecedenceWitness ==
    \E c, d \in Clients :
        /\ At(c, "decrease_quantity", "ret")
        /\ req[c].sku = "" /\ req[c].quantity = 0
        /\ res[c] = NotFound(NO_ITEM_ERR)
        /\ At(d, "increase_quantity", "ret")
        /\ Contains(inventory, req[d].sku) /\ req[d].quantity = 0
        /\ res[d] = InvalidArgument(DUP_QUANT_ERR)

\* C16: stored-record invariant.  Every Item in the store has a present stock
\* whose price is > 0, and no DecreaseQuantity, IncreaseQuantity or UpdatePrice
\* returns internal (missing stock).
StoredRecordInvariant ==
    /\ \A sku \in DOMAIN inventory :
          /\ IsSome(inventory[sku].stock)
          /\ Positive(Unwrap(inventory[sku].stock).price)
    /\ \A c \in Clients :
          /\ pc[c] = "ret"
          /\ req[c].op \in {"decrease_quantity", "increase_quantity", "update_price"}
          => res[c] # Internal(NO_STOCK_ERR)

\* C17: no operation blocks forever.  A task that holds the lock is at a step
\* of its critical section, never sleeping, waiting or returned; under the
\* fair scheduling a held lock is eventually released, every call that
\* reached the lock eventually returns, and every poll of a watch task that
\* woke up eventually completes.
NoOperationBlocksForever ==
    /\ [][/\ \A c \in Clients : lock' = c => pc'[c] \in {"cs", "store"}
          /\ \A w \in Watchers : lock' = w => wpc'[w] = "poll"]_vars
    /\ lock # NoTask ~> lock = NoTask
    /\ \A c \in Clients : pc[c] \in {"wait", "cs", "store"} ~> pc[c] = "ret"
    /\ \A w \in Watchers : wpc[w] \in {"wait", "poll"} ~> wpc[w] \in {"sleep", "done"}

\* a watch task holds the lock for its poll while both handlers wait for it
NoOperationBlocksForeverWitness ==
    \E c, d \in Clients, w \in Watchers :
        /\ c # d
        /\ lock = w /\ wpc[w] = "poll"
        /\ pc[c] = "wait" /\ pc[d] = "wait"

\* the record of the SKU watch task w watches was removed and added again, and
\* the task is still running: the Remove of client c and the Add of client d
\* have both just returned success and the store holds the Item of the Add
ReAdded(w, c, d) ==
    /\ At(c, "remove", "ret") /\ req[c].sku = wid[w]
    /\ res[c] = InventoryChangeResponse("success: item was removed")
    /\ At(d, "add", "ret") /\ res[d].ok
    /\ Unwrap(req[d].item.identifier).sku = wid[w]
    /\ Contains(inventory, wid[w]) /\ inventory[wid[w]] = req[d].item

\* C18: Remove then re-Add between two polls is seen as 'still exists'.  The
\* poll after the re-Add, with the receiver open, emits no not-found and the
\* task goes on; it emits one change event carrying the re-added record when
\* that record differs from the held snapshot, and nothing when it is equal.
ReAddSeenAsStillExists ==
    [][\A w \in Watchers : \A c, d \in Clients :
          /\ wpc[w] = "poll" /\ wpc'[w] # "poll" /\ rx[w]
          /\ ReAdded(w, c, d)
          => /\ wpc'[w] = "sleep"
             /\ stream'[w] = IF req[d].item # witem[w]
                               THEN Append(stream[w], Changed(req[d].item))
                               ELSE stream[w]]_vars

\* C19: the empty-SKU error of the quantity operations is unreachable.  The
\* map never has the empty string as a key; a DecreaseQuantity or
\* IncreaseQuantity never returns invalid-argument 'provided SKU was empty',
\* and with an empty SKU it returns not-found; Get, Remove and UpdatePrice
\* with an empty SKU return invalid-argument 'provided SKU was empty'.
EmptySkuErrorUnreachable ==
    /\ [](~Contains(inventory, ""))
    /\ [][\A c \in Clients :
            Returns(c) =>
                /\ req'[c].op \in {"decrease_quantity", "increase_quantity"} =>
                      /\ res'[c] # InvalidArgument(EMPTY_SKU_ERR)
                      /\ req'[c].sku = "" => res'[c] = NotFound(NO_ITEM_ERR)
                /\ req'[c].op \in {"get", "remove", "update_price"} /\ req'[c].sku = "" =>
                      res'[c] = InvalidArgument(EMPTY_SKU_ERR)]_vars

\* with a record in the store, an increase with an empty SKU returned
\* not-found and an UpdatePrice with an empty SKU returned invalid-argument
EmptySkuErrorUnreachableWitness ==
    \E c, d \in Clients :
        /\ inventory # << >>
        /\ At(c, "increase_quantity", "ret") /\ req[c].sku = ""
        /\ res[c] = NotFound(NO_ITEM_ERR)
        /\ At(d, "update_price", "ret") /\ req[d].sku = ""
        /\ res[d] = InvalidArgument(EMPTY_SKU_ERR)

\* C20: IncreaseQuantity is exact over the whole range of the quantity type.
\* An IncreaseQuantity(sku, a) that returns success on a record with quantity
\* q leaves the stored quantity at q + a, never at a wrapped value, and
\* returns q + a.
IncreaseExact ==
    [][\A c \in Clients :
          Stores(c, "increase_quantity") /\ res'[c].ok =>
              LET sum == QuantityOf(inventory, req[c].sku) + req[c].quantity
              IN  /\ QuantityOf(inventory', req[c].sku) = sum
                  /\ res'[c].quantity = sum
                  /\ sum > QuantityOf(inventory, req[c].sku)]_vars

====
